---- MODULE Spec2Model ----
(***************************************************************************)
(* tools/analyze_and_generate.py: detect the project's ecosystem from the  *)
(* marker files at its root, choose the template bundle of that tag,       *)
(* render the three templates by literal placeholder replacement and write *)
(* them, with report.txt, under .ci-generated.                             *)
(*                                                                         *)
(* Text is a sequence of symbols: "{" and "}" are single characters, a     *)
(* placeholder name or any other run of text is one symbol.  The empty     *)
(* string is << >>.                                                        *)
(***************************************************************************)
EXTENDS Integers, Sequences, FiniteSets, TLC

\* ------------------------------------------------------------- bounds
\* runs of the tool over one project directory (multi-run behaviours)
MaxRuns == 2
\* pieces a template text is built from when render_template runs alone
MaxPieces == 2

VARIABLES
    root,          \* ROOT's top-level entries: name -> state of its content
    env,           \* os.environ: variable name -> text (unset = not in DOMAIN)
    templates,     \* files under TEMPLATES: path -> text
    unwritable,    \* names under OUT whose write raises (permission denied)
    out,           \* files under OUT (.ci-generated): name -> content
    pc,            \* position of the run
    idx,           \* position in the loop over outputs (line 153)
    info,          \* main's info (line 117)
    tpl,           \* main's tpl (lines 119-132)
    render_vars,   \* main's vars (lines 136-145)
    report_lines,  \* main's report_lines
    written,       \* names under OUT written by the current run
    prevOut,       \* OUT as the previous run left it
    same,          \* a previous run exists and nothing was edited since
    changed,       \* templates were edited since the last run ended
    runsLeft,      \* runs still allowed in this behaviour
    rctx,          \* render_template alone: its vars, in dict order
    rres           \* render_template alone: the returned value

vars == <<root, env, templates, unwritable, out, pc, idx, info, tpl,
          render_vars, report_lines, written, prevOut, same, changed,
          runsLeft, rctx, rres>>

\* ------------------------------------------------------------- values
\* Python's None, as a text no file or variable can hold
None == <<"<None>">>
\* an exception travelling up the stack
Raised == <<"<Raised>">>
\* the empty dict
EmptyMap == [k \in {} |-> << >>]
\* the text of the token {{name}}
Tok(name) == <<"{", "{", name, "}", "}">>

\* ------------------------------------------------------------- files
OutDirName == ".ci-generated"
Markers == {"pom.xml", "build.gradle", "build.gradle.kts", "go.mod",
            "package.json", "pyproject.toml", "requirements.txt", "setup.py"}
\* every name a root may hold, in the order sorted() gives (code points)
NameOrder == <<".ci-generated", "README.md", "build.gradle", "build.gradle.kts",
               "go.mod", "package.json", "pom.xml", "pyproject.toml",
               "requirements.txt", "setup.py">>

\* the states of a manifest's content that the code can tell apart
ContentStates(name) ==
    CASE name = "pom.xml"        -> {"unreadable", "empty", "nofield", "alt", "valid"}
      [] name = "go.mod"         -> {"unreadable", "empty", "valid"}
      [] name = "package.json"   -> {"unreadable", "empty", "malformed", "nonobject",
                                     "nofield", "valid"}
      [] name = "pyproject.toml" -> {"unreadable", "empty", "nofield", "valid"}
      [] OTHER                   -> {"other"}

\* Path.exists
exists(r, name) == name \in DOMAIN r
\* Path.is_file
is_file(r, name) == name \in DOMAIN r /\ r[name] # "dir"
\* OUT.mkdir(exist_ok=True, parents=True), at import
mkdir(r) == IF OutDirName \in DOMAIN r THEN r ELSE (OutDirName :> "dir") @@ r
\* Path.read_text: the content, or an exception
read_text(r, name) == IF r[name] \in {"unreadable", "dir"} THEN "raised" ELSE r[name]

\* ------------------------------------------------------------- detect_language
\* try: ... except Exception: the fallback replaces whatever was raised
TryUncaught(v, fallback) == v
Try(v, fallback) == IF v = Raised THEN fallback ELSE v

\* lines 32-36: maven.compiler.source, else java.version, else None
java_version(r) ==
    LET content == read_text(r, "pom.xml") IN
    IF content = "raised" THEN Raised
    ELSE IF content = "valid" THEN <<"17">>
    ELSE IF content = "alt" THEN <<"11">>
    ELSE None

\* lines 42-43: the first line of go.mod; no first line raises IndexError
go_mod_first(r) ==
    LET content == read_text(r, "go.mod") IN
    IF content = "raised" THEN Raised
    ELSE IF content = "empty" THEN Raised
    ELSE <<"module demo">>

\* line 49: json.loads of package.json, then pkg.get (lines 50-52)
pkg_get(r, key) ==
    LET content == read_text(r, "package.json") IN
    IF content \in {"raised", "empty", "malformed", "nonobject"} THEN Raised
    ELSE IF content = "nofield"
         THEN (IF key = "scripts" THEN <<"{}">> ELSE None)
    ELSE CASE key = "name"    -> <<"demo">>
           [] key = "scripts" -> <<"{'build': 'tsc'}">>
           [] OTHER           -> None

\* lines 60-62: python = "..." in pyproject.toml
python_requires(r) ==
    LET content == read_text(r, "pyproject.toml") IN
    IF content = "raised" THEN Raised
    ELSE IF content = "valid" THEN <<"^3.10">>
    ELSE None

\* line 26: the names of the top-level files, sorted (line 27)
found_files(r) ==
    LET IsFile(n) == is_file(r, n) IN SelectSeq(NameOrder, IsFile)

detect_language_swapped(r) ==
    LET files == found_files(r) IN
    IF exists(r, "pom.xml") \/ exists(r, "build.gradle") \/ exists(r, "build.gradle.kts")
    THEN [language |-> "java", found_files |-> files,
          details |-> IF exists(r, "pom.xml")
                      THEN "java_version" :> Try(java_version(r), None)
                      ELSE EmptyMap]
    ELSE IF exists(r, "package.json")
    THEN [language |-> "node", found_files |-> files,
          details |-> ("name" :> Try(pkg_get(r, "name"), None))
                      @@ ("scripts" :> Try(pkg_get(r, "scripts"), <<"{}">>))
                      @@ ("engines" :> Try(pkg_get(r, "engines"), None))]
    ELSE IF exists(r, "go.mod")
    THEN [language |-> "go", found_files |-> files,
          details |-> "go_mod_first" :> Try(go_mod_first(r), None)]
    ELSE IF \E f \in {"pyproject.toml", "requirements.txt", "setup.py"} : exists(r, f)
    THEN [language |-> "python", found_files |-> files,
          details |-> IF exists(r, "pyproject.toml")
                      THEN "python_requires" :> Try(python_requires(r), None)
                      ELSE EmptyMap]
    ELSE [language |-> "unknown", found_files |-> files, details |-> EmptyMap]

\* lines 21-67
detect_language(r) ==
    LET files == found_files(r) IN
    IF exists(r, "pom.xml") \/ exists(r, "build.gradle") \/ exists(r, "build.gradle.kts")
    THEN [language |-> "java", found_files |-> files,
          details |-> IF exists(r, "pom.xml")
                      THEN "java_version" :> Try(java_version(r), None)
                      ELSE EmptyMap]
    ELSE IF exists(r, "go.mod")
    THEN [language |-> "go", found_files |-> files,
          details |-> "go_mod_first" :> Try(go_mod_first(r), None)]
    ELSE IF exists(r, "package.json")
    THEN [language |-> "node", found_files |-> files,
          details |-> ("name" :> Try(pkg_get(r, "name"), None))
                      @@ ("scripts" :> Try(pkg_get(r, "scripts"), <<"{}">>))
                      @@ ("engines" :> Try(pkg_get(r, "engines"), None))]
    ELSE IF \E f \in {"pyproject.toml", "requirements.txt", "setup.py"} : exists(r, f)
    THEN [language |-> "python", found_files |-> files,
          details |-> IF exists(r, "pyproject.toml")
                      THEN "python_requires" :> Try(python_requires(r), None)
                      ELSE EmptyMap]
    ELSE [language |-> "unknown", found_files |-> files, details |-> EmptyMap]

\* ------------------------------------------------------------- choose_templates
\* TEMPLATES / dir / file
TemplatePath(dir, file) == <<dir, file>>

\* what map_.get returns for a tag that is no key: None
NoBundle == [docker |-> << >>, jenkins |-> << >>, gitlab |-> << >>,
             build_cmd |-> None, test_cmd |-> None, cache |-> None]

\* lines 71-104
map_ ==
    ("java" :> [docker |-> TemplatePath("docker", "Dockerfile.java"),
                jenkins |-> TemplatePath("jenkins", "Jenkinsfile.java"),
                gitlab |-> TemplatePath("gitlab", ".gitlab-ci.java.yml"),
                build_cmd |-> <<"mvn -B -DskipTests=false clean package">>,
                test_cmd |-> <<"mvn test">>,
                cache |-> <<"~/.m2/repository">>])
    @@ ("go" :> [docker |-> TemplatePath("docker", "Dockerfile.go"),
                 jenkins |-> TemplatePath("jenkins", "Jenkinsfile.go"),
                 gitlab |-> TemplatePath("gitlab", ".gitlab-ci.go.yml"),
                 build_cmd |-> <<"go build -v ./...">>,
                 test_cmd |-> <<"go test ./...">>,
                 cache |-> <<"$GOMODCACHE">>])
    @@ ("node" :> [docker |-> TemplatePath("docker", "Dockerfile.node"),
                   jenkins |-> TemplatePath("jenkins", "Jenkinsfile.node"),
                   gitlab |-> TemplatePath("gitlab", ".gitlab-ci.node.yml"),
                   build_cmd |-> <<"npm ci && npm run build || true">>,
                   test_cmd |-> <<"npm test">>,
                   cache |-> <<"~/.npm">>])
    @@ ("python" :> [docker |-> TemplatePath("docker", "Dockerfile.python"),
                     jenkins |-> TemplatePath("jenkins", "Jenkinsfile.python"),
                     gitlab |-> TemplatePath("gitlab", ".gitlab-ci.python.yml"),
                     build_cmd |-> <<"python -m pip install -r requirements.txt --user">>,
                     test_cmd |-> <<"pytest -q">>,
                     cache |-> <<"~/.cache/pip">>])

choose_templates_default(lang) ==
    IF lang \in DOMAIN map_ THEN map_[lang] ELSE map_["python"]

\* line 105
choose_templates(lang) ==
    IF lang \in DOMAIN map_ THEN map_[lang] ELSE NoBundle

\* lines 125-132
GenericBundle ==
    [docker |-> TemplatePath("docker", "Dockerfile.generic"),
     jenkins |-> TemplatePath("jenkins", "Jenkinsfile.generic"),
     gitlab |-> TemplatePath("gitlab", ".gitlab-ci.generic.yml"),
     build_cmd |-> <<"echo \"No build configured\"">>,
     test_cmd |-> <<"echo \"No tests configured\"">>,
     cache |-> << >>]

\* the bundle main goes on with: choose_templates, else the generic one (123-132)
bundle_for(lang) ==
    IF choose_templates(lang) = NoBundle THEN GenericBundle ELSE choose_templates(lang)

\* ------------------------------------------------------------- render_template
\* str.replace: leftmost occurrences of old, not overlapping, left to right
RECURSIVE ReplaceFrom(_, _, _, _)
ReplaceFrom(s, i, old, new) ==
    IF i > Len(s) THEN << >>
    ELSE IF i + Len(old) - 1 <= Len(s) /\ SubSeq(s, i, i + Len(old) - 1) = old
         THEN new \o ReplaceFrom(s, i + Len(old), old, new)
         ELSE <<s[i]>> \o ReplaceFrom(s, i + 1, old, new)

replace(s, old, new) == ReplaceFrom(s, 1, old, new)

\* str(v)
str(v) == IF v = None THEN <<"None">> ELSE v

\* lines 111-112: one replace per key, in dict order, each on the result so far
RECURSIVE RenderLoop(_, _, _)
RenderLoop(s, ctx, i) ==
    IF i > Len(ctx) THEN s
    ELSE RenderLoop(replace(s, Tok(ctx[i][1]), str(ctx[i][2])), ctx, i + 1)

render_template_blank(path, ctx, tpls) ==
    IF path = << >> \/ path \notin DOMAIN tpls THEN << >>
    ELSE RenderLoop(tpls[path], ctx, 1)

\* lines 107-113; ctx is the dict as the sequence of its (key, value) pairs
render_template(path, ctx, tpls) ==
    IF path = << >> \/ path \notin DOMAIN tpls THEN None
    ELSE RenderLoop(tpls[path], ctx, 1)

\* ------------------------------------------------------------- main
\* the keys of outputs, in dict order (lines 147-151)
KindSeq == <<"docker", "jenkins", "gitlab">>
OutputName(kind) ==
    CASE kind = "docker"  -> "Dockerfile"
      [] kind = "jenkins" -> "Jenkinsfile"
      [] kind = "gitlab"  -> ".gitlab-ci.yml"
ReportName == "report.txt"
OutNames == {OutputName(KindSeq[i]) : i \in 1..3} \cup {ReportName}

\* x or d
Or(x, d) == IF x \in {None, << >>} THEN d ELSE x

environ_get_nonempty(e, name, default) ==
    IF name \in DOMAIN e /\ e[name] # << >> THEN e[name] ELSE default

\* os.environ.get(name, default)
environ_get(e, name, default) == IF name \in DOMAIN e THEN e[name] ELSE default

\* {**a, **b}
Merge(a, b) == [k \in DOMAIN a \cup DOMAIN b |-> IF k \in DOMAIN b THEN b[k] ELSE a[k]]

\* line 135
project_name(details) ==
    Or(IF "name" \in DOMAIN details THEN details["name"] ELSE None, <<"local-project">>)

make_vars_from_scripts(t, details, e) ==
    Merge(("BUILD_CMD" :> IF "scripts" \in DOMAIN details /\ details["scripts"] # <<"{}">>
                          THEN <<"npm run build">> ELSE t.build_cmd)
          @@ ("TEST_CMD" :> t.test_cmd)
          @@ ("CACHE_DIR" :> t.cache)
          @@ ("PROJECT_NAME" :> project_name(details))
          @@ ("IMAGE_NAME" :> Or(environ_get(e, "CI_REGISTRY_IMAGE", None),
                                 project_name(details) \o <<":latest">>))
          @@ ("SONAR_HOST" :> environ_get(e, "SONAR_HOST", <<"http://sonarqube:9000">>))
          @@ ("NEXUS_URL" :> environ_get(e, "NEXUS_URL", <<"http://nexus:8081">>)),
          details)

\* lines 136-145
make_vars(t, details, e) ==
    Merge(("BUILD_CMD" :> t.build_cmd)
          @@ ("TEST_CMD" :> t.test_cmd)
          @@ ("CACHE_DIR" :> t.cache)
          @@ ("PROJECT_NAME" :> project_name(details))
          @@ ("IMAGE_NAME" :> Or(environ_get(e, "CI_REGISTRY_IMAGE", None),
                                 project_name(details) \o <<":latest">>))
          @@ ("SONAR_HOST" :> environ_get(e, "SONAR_HOST", <<"http://sonarqube:9000">>))
          @@ ("NEXUS_URL" :> environ_get(e, "NEXUS_URL", <<"http://nexus:8081">>)),
          details)

\* lines 155-162: the dict handed to render_template
RenderKeys == <<"BUILD_CMD", "TEST_CMD", "CACHE_DIR", "IMAGE_NAME", "SONAR_HOST", "NEXUS_URL">>
render_context(v) == [i \in 1..Len(RenderKeys) |-> <<RenderKeys[i], v[RenderKeys[i]]>>]

\* the report's lines (121, 122, 124, 164, 167)
LanguageLine(lang) == <<"language: ", lang>>
FoundFilesLine(files) == <<"found_files: ">> \o files
NoTemplateLine ==
    <<"No built-in template for detected language. Provide justification to add support.">>
NotFoundLine(key, path) == <<"Template for ", key, " not found: ">> \o path
WroteLine(name) == <<"Wrote ", OutDirName, "/", name>>

write_text_append(o, name, content) ==
    [n \in DOMAIN o \cup {name} |->
        IF n # name THEN o[n]
        ELSE IF name \in DOMAIN o THEN o[name] \o content ELSE content]

\* Path.write_text: create or overwrite
write_text(o, name, content) ==
    [n \in DOMAIN o \cup {name} |-> IF n = name THEN content ELSE o[n]]

NoInfo == [language |-> "", found_files |-> << >>, details |-> EmptyMap]

\* lines 8-10 and 117: import creates OUT, main detects
Detect ==
    /\ pc \in {"idle", "done", "failed"}
    /\ runsLeft > 0
    /\ runsLeft' = runsLeft - 1
    /\ root' = mkdir(root)
    /\ info' = detect_language(mkdir(root))
    /\ pc' = IF \E k \in DOMAIN info'.details : info'.details[k] = Raised
             THEN "failed" ELSE "detected"
    /\ idx' = 0
    /\ tpl' = NoBundle
    /\ render_vars' = EmptyMap
    /\ report_lines' = << >>
    /\ written' = {}
    /\ prevOut' = out
    /\ same' = ~changed
    /\ changed' = FALSE
    /\ UNCHANGED <<env, templates, unwritable, out, rctx, rres>>

\* lines 119-151
Prepare ==
    /\ pc = "detected"
    /\ tpl' = bundle_for(info.language)
    /\ report_lines' =
         <<LanguageLine(info.language), FoundFilesLine(info.found_files)>>
         \o (IF choose_templates(info.language) = NoBundle
             THEN <<NoTemplateLine>> ELSE << >>)
    /\ render_vars' = make_vars(tpl', info.details, env)
    /\ idx' = 1
    /\ pc' = "render"
    /\ UNCHANGED <<root, env, templates, unwritable, out, info, written, prevOut,
                   same, changed, runsLeft, rctx, rres>>

RenderWriteCaught ==
    /\ pc = "render"
    /\ LET key == KindSeq[idx]
           name == OutputName(key)
           content == render_template(tpl[key], render_context(render_vars), templates)
       IN
       /\ IF content = None
          THEN /\ report_lines' = Append(report_lines, NotFoundLine(key, tpl[key]))
               /\ UNCHANGED <<out, written>>
          ELSE IF name \in unwritable
          THEN /\ report_lines' = Append(report_lines, <<"Could not write ", name>>)
               /\ UNCHANGED <<out, written>>
          ELSE /\ out' = write_text(out, name, content)
               /\ written' = written \cup {name}
               /\ report_lines' = Append(report_lines, WroteLine(name))
       /\ idx' = idx + 1
       /\ pc' = IF idx = Len(KindSeq) THEN "report" ELSE "render"
    /\ UNCHANGED <<root, env, templates, unwritable, info, tpl, render_vars, prevOut,
                   same, changed, runsLeft, rctx, rres>>

\* lines 153-167, one pass of the loop; a write that raises ends the run
RenderWrite ==
    /\ pc = "render"
    /\ LET key == KindSeq[idx]
           name == OutputName(key)
           content == render_template(tpl[key], render_context(render_vars), templates)
       IN
       IF content = None
       THEN /\ report_lines' = Append(report_lines, NotFoundLine(key, tpl[key]))
            /\ idx' = idx + 1
            /\ pc' = IF idx = Len(KindSeq) THEN "report" ELSE "render"
            /\ UNCHANGED <<out, written>>
       ELSE IF name \in unwritable
       THEN /\ pc' = "failed"
            /\ UNCHANGED <<out, written, report_lines, idx>>
       ELSE /\ out' = write_text(out, name, content)
            /\ written' = written \cup {name}
            /\ report_lines' = Append(report_lines, WroteLine(name))
            /\ idx' = idx + 1
            /\ pc' = IF idx = Len(KindSeq) THEN "report" ELSE "render"
    /\ UNCHANGED <<root, env, templates, unwritable, info, tpl, render_vars, prevOut,
                   same, changed, runsLeft, rctx, rres>>

\* line 169; "\n".join keeps the lines, in order
WriteReport ==
    /\ pc = "report"
    /\ IF ReportName \in unwritable
       THEN /\ pc' = "failed"
            /\ UNCHANGED <<out, written>>
       ELSE /\ out' = write_text(out, ReportName, report_lines)
            /\ written' = written \cup {ReportName}
            /\ pc' = "done"
    /\ UNCHANGED <<root, env, templates, unwritable, idx, info, tpl, render_vars,
                   report_lines, prevOut, same, changed, runsLeft, rctx, rres>>

\* ------------------------------------------------------------- environment
\* the text of a template file: its name, then every placeholder the
\* templates may hold, a detail key and a name no context has
TemplateText(path) ==
    <<path[2], " ">> \o Tok("BUILD_CMD") \o Tok("TEST_CMD") \o Tok("CACHE_DIR")
    \o <<" ">> \o Tok("PROJECT_NAME") \o Tok("IMAGE_NAME") \o Tok("SONAR_HOST")
    \o Tok("NEXUS_URL") \o <<" ">> \o Tok("java_version") \o Tok("UNKNOWN_VAR")

Tags == {"java", "go", "node", "python", "unknown"}
AllTemplatePaths == {bundle_for(t)[KindSeq[i]] : t \in Tags, i \in 1..3}
AllTemplates == [p \in AllTemplatePaths |-> TemplateText(p)]

\* between runs, someone adds or removes one of the templates the project uses
EditTemplate ==
    /\ pc \in {"idle", "done", "failed"}
    /\ runsLeft > 0
    /\ \E i \in 1..Len(KindSeq) :
         LET p == bundle_for(detect_language(mkdir(root)).language)[KindSeq[i]] IN
         templates' = IF p \in DOMAIN templates
                      THEN [q \in DOMAIN templates \ {p} |-> templates[q]]
                      ELSE (p :> TemplateText(p)) @@ templates
    /\ changed' = TRUE
    /\ pc' = "idle"
    /\ idx' = 0
    /\ info' = NoInfo
    /\ tpl' = NoBundle
    /\ render_vars' = EmptyMap
    /\ report_lines' = << >>
    /\ written' = {}
    /\ UNCHANGED <<root, env, unwritable, out, prevOut, same, runsLeft, rctx, rres>>

EnvNames == {"CI_REGISTRY_IMAGE", "SONAR_HOST", "NEXUS_URL"}
EnvValues(name) ==
    CASE name = "CI_REGISTRY_IMAGE" -> {<< >>, <<"registry.corp/app">>}
      [] name = "SONAR_HOST"        -> {<< >>, <<"http://sonar.corp">>}
      [] name = "NEXUS_URL"         -> {<<"http://nexus.corp">>}
Environments ==
    UNION {{e \in [S -> UNION {EnvValues(n) : n \in EnvNames}] :
              \A n \in S : e[n] \in EnvValues(n)} : S \in SUBSET EnvNames}

RootsOver(S) ==
    {r \in [S -> UNION {ContentStates(n) : n \in S}] : \A n \in S : r[n] \in ContentStates(n)}

\* project roots of the single-run behaviours: every manifest in every state
SingleRunFiles ==
    {{}, {"README.md"}, {"pom.xml"}, {"build.gradle.kts", "README.md"}, {"go.mod"},
     {"package.json", "README.md"}, {"pyproject.toml"}, {"setup.py", "requirements.txt"}}
\* project roots of the multi-run behaviours
MultiRunRoots ==
    {EmptyMap, "go.mod" :> "valid", "package.json" :> "valid"}

Locals ==
    /\ pc = "idle"
    /\ idx = 0
    /\ info = NoInfo
    /\ tpl = NoBundle
    /\ render_vars = EmptyMap
    /\ report_lines = << >>
    /\ written = {}
    /\ out = EmptyMap
    /\ prevOut = EmptyMap
    /\ same = FALSE
    /\ changed = TRUE
    /\ rctx = << >>
    /\ rres = None

\* one run, over every root, manifest state and environment
InitSingle ==
    /\ root \in UNION {RootsOver(S) : S \in SingleRunFiles}
    /\ env \in Environments
    /\ templates = AllTemplates
    /\ unwritable = {}
    /\ runsLeft = 1
    /\ Locals

\* several runs over one directory, templates edited in between, and
\* at most one output name that cannot be written
InitMulti ==
    /\ root \in MultiRunRoots
    /\ env \in {EmptyMap, "CI_REGISTRY_IMAGE" :> <<"registry.corp/app">>}
    /\ templates = AllTemplates
    /\ unwritable \in {{}} \cup {{n} : n \in OutNames}
    /\ runsLeft = MaxRuns
    /\ Locals

Init == InitSingle \/ InitMulti

Next == Detect \/ Prepare \/ RenderWrite \/ WriteReport \/ EditTemplate

Spec == Init /\ [][Next]_vars

\* ------------------------------------------------------------- detection alone
\* a root holding exactly the files of S, each manifest well-formed
RootOf(S) == [n \in S |-> IF "valid" \in ContentStates(n) THEN "valid" ELSE "other"]

\* every combination of the eight marker files
InitDetect ==
    /\ root \in {RootOf(S) : S \in SUBSET Markers}
    /\ env = EmptyMap
    /\ templates = AllTemplates
    /\ unwritable = {}
    /\ runsLeft = 1
    /\ Locals

SpecDetect == InitDetect /\ [][Detect]_vars

\* ------------------------------------------------------------- render_template alone
RPath == TemplatePath("docker", "Dockerfile.test")
Pieces == {Tok("SONAR_HOST"), Tok("NEXUS_URL"), Tok("UNKNOWN_VAR"), <<"text">>, <<"{">>}
RValues == {<<"v">>, << >>, Tok("NEXUS_URL"), Tok("SONAR_HOST")}
RKeys == {"SONAR_HOST", "NEXUS_URL"}

RECURSIVE TextsUpTo(_)
TextsUpTo(n) ==
    IF n = 0 THEN {<< >>}
    ELSE LET S == TextsUpTo(n - 1) IN S \cup {t \o p : t \in S, p \in Pieces}

\* dicts over RKeys, in either insertion order
Contexts ==
    {<< >>}
    \cup {<<(<<k, v>>)>> : k \in RKeys, v \in RValues}
    \cup {<<(<<k1, v1>>), (<<k2, v2>>)>> :
            <<k1, k2>> \in {kk \in RKeys \X RKeys : kk[1] # kk[2]},
            <<v1, v2>> \in RValues \X RValues}

InitRender ==
    /\ root = EmptyMap
    /\ env = EmptyMap
    /\ templates \in {EmptyMap} \cup {RPath :> t : t \in TextsUpTo(MaxPieces)}
    /\ unwritable = {}
    /\ runsLeft = 0
    /\ idx = 0
    /\ info = NoInfo
    /\ tpl = NoBundle
    /\ render_vars = EmptyMap
    /\ report_lines = << >>
    /\ written = {}
    /\ out = EmptyMap
    /\ prevOut = EmptyMap
    /\ same = FALSE
    /\ changed = TRUE
    /\ rctx \in Contexts
    /\ rres = None
    /\ pc = "call"

\* one call of render_template
RenderCall ==
    /\ pc = "call"
    /\ rres' = render_template(RPath, rctx, templates)
    /\ pc' = "returned"
    /\ UNCHANGED <<root, env, templates, unwritable, out, idx, info, tpl, render_vars,
                   report_lines, written, prevOut, same, changed, runsLeft, rctx>>

SpecRender == InitRender /\ [][RenderCall]_vars

\* ------------------------------------------------------------- claims
Range(s) == {s[i] : i \in 1..Len(s)}
Contains(s, sub) ==
    \E i \in 1..Len(s) : i + Len(sub) - 1 <= Len(s) /\ SubSeq(s, i, i + Len(sub) - 1) = sub

\* main has built tpl and vars
AfterPrepare == pc \in {"render", "report", "done"} \/ (pc = "failed" /\ idx >= 1)
\* the file whose write ended the run
FailingName == IF idx \in 1..Len(KindSeq) THEN OutputName(KindSeq[idx]) ELSE ReportName
MarkersAt(r) == DOMAIN r \cap Markers

\* the tag the priority order of the marker files fixes
ExpectedTag(r) ==
    IF MarkersAt(r) \cap {"pom.xml", "build.gradle", "build.gradle.kts"} # {} THEN "java"
    ELSE IF "go.mod" \in MarkersAt(r) THEN "go"
    ELSE IF "package.json" \in MarkersAt(r) THEN "node"
    ELSE IF MarkersAt(r) \cap {"pyproject.toml", "requirements.txt", "setup.py"} # {}
         THEN "python"
    ELSE "unknown"

\* C1: for every combination of marker files detect_language returns the one
\* tag of the priority java > go > node > python > unknown; pom.xml with
\* package.json is java; unknown exactly when no marker file exists.
C1_Priority ==
    pc = "detected" =>
        /\ info.language \in Tags
        /\ info.language = ExpectedTag(root)
        /\ ({"pom.xml", "package.json"} \subseteq DOMAIN root => info.language = "java")
        /\ (info.language = "unknown" <=> MarkersAt(root) = {})

C1_Witness ==
    /\ pc = "detected"
    /\ {"pom.xml", "package.json", "go.mod"} \subseteq DOMAIN root
    /\ info.language = "java"

ListedPlaceholders ==
    {"BUILD_CMD", "TEST_CMD", "CACHE_DIR", "PROJECT_NAME", "IMAGE_NAME", "SONAR_HOST",
     "NEXUS_URL"}

\* C2: none of the placeholder tokens the templates may hold (the seven
\* named ones and the detected detail keys) remains in an output main wrote.
C2_NoListedTokenRemains ==
    \A n \in written \ {ReportName} :
        \A k \in ListedPlaceholders \cup DOMAIN info.details :
            ~Contains(out[n], Tok(k))

\* C3, as claimed: after a run, an output whose template does not exist is
\* absent from .ci-generated, the report names the missing template, and
\* the outputs whose template exists were written - whatever earlier runs did.
C3_AbsentAfterEveryRun ==
    pc = "done" =>
        \A i \in 1..Len(KindSeq) :
            tpl[KindSeq[i]] \notin DOMAIN templates =>
                /\ OutputName(KindSeq[i]) \notin DOMAIN out
                /\ NotFoundLine(KindSeq[i], tpl[KindSeq[i]]) \in Range(out[ReportName])
                /\ \A j \in 1..Len(KindSeq) :
                       tpl[KindSeq[j]] \in DOMAIN templates =>
                           OutputName(KindSeq[j]) \in written

\* C3, amended: after a run that completes, an output whose template does
\* not exist was not written by that run (the file is as it was before the
\* run: absent, or what an earlier run left), the report names the missing
\* template, and the outputs whose template exists were written by the run.
C3_NotWrittenByTheRun ==
    pc = "done" =>
        \A i \in 1..Len(KindSeq) :
            tpl[KindSeq[i]] \notin DOMAIN templates =>
                /\ OutputName(KindSeq[i]) \notin written
                /\ (OutputName(KindSeq[i]) \in DOMAIN out
                        <=> OutputName(KindSeq[i]) \in DOMAIN prevOut)
                /\ (OutputName(KindSeq[i]) \in DOMAIN out
                        => out[OutputName(KindSeq[i])] = prevOut[OutputName(KindSeq[i])])
                /\ NotFoundLine(KindSeq[i], tpl[KindSeq[i]]) \in Range(out[ReportName])
                /\ \A j \in 1..Len(KindSeq) :
                       tpl[KindSeq[j]] \in DOMAIN templates =>
                           /\ OutputName(KindSeq[j]) \in written
                           /\ out[OutputName(KindSeq[j])] =
                                  RenderLoop(templates[tpl[KindSeq[j]]],
                                             render_context(render_vars), 1)

C3_Witness ==
    /\ pc = "done"
    /\ tpl.docker \notin DOMAIN templates
    /\ "Dockerfile" \in DOMAIN out
    /\ "Dockerfile" \notin written
    /\ "Jenkinsfile" \in written

\* C4: a run over a root, templates and environment unchanged since the
\* previous run leaves .ci-generated (the files present and their content,
\* report.txt included) exactly as the previous run left it.
C4_Idempotent ==
    (pc \in {"done", "failed"} /\ same) => out = prevOut

C4_Witness ==
    /\ pc = "done"
    /\ same
    /\ {"Dockerfile", ReportName} \subseteq written
    /\ out = prevOut

\* C5: the template paths and BUILD_CMD, TEST_CMD, CACHE_DIR of a run are
\* those of the detected tag's bundle, whatever the details, the files found
\* and the environment; a root with only go.mod runs with the go bundle.
C5_BundleOfTag ==
    AfterPrepare =>
        /\ tpl = bundle_for(ExpectedTag(root))
        /\ render_vars["BUILD_CMD"] = bundle_for(ExpectedTag(root)).build_cmd
        /\ render_vars["TEST_CMD"] = bundle_for(ExpectedTag(root)).test_cmd
        /\ render_vars["CACHE_DIR"] = bundle_for(ExpectedTag(root)).cache
        /\ render_context(render_vars)[1] = <<"BUILD_CMD", tpl.build_cmd>>
        /\ (MarkersAt(root) = {"go.mod"} =>
                /\ info.language = "go"
                /\ render_vars["BUILD_CMD"] = <<"go build -v ./...">>
                /\ render_vars["TEST_CMD"] = <<"go test ./...">>
                /\ tpl.docker = <<"docker", "Dockerfile.go">>
                /\ tpl.jenkins = <<"jenkins", "Jenkinsfile.go">>
                /\ tpl.gitlab = <<"gitlab", ".gitlab-ci.go.yml">>)

C5_Witness ==
    /\ pc = "done"
    /\ MarkersAt(root) = {"go.mod"}
    /\ "CI_REGISTRY_IMAGE" \in DOMAIN env
    /\ render_vars["BUILD_CMD"] = <<"go build -v ./...">>

\* C6: with no marker file the run uses the generic bundle (generic template
\* paths, the two echo commands, empty cache dir), completes unless a write
\* raises, and reports that no built-in template exists; the generic bundle
\* is used only for the tag unknown.
C6_GenericBundle ==
    /\ AfterPrepare =>
          /\ (tpl.docker = <<"docker", "Dockerfile.generic">> <=> info.language = "unknown")
          /\ (MarkersAt(root) = {} =>
                /\ info.language = "unknown"
                /\ tpl.docker = <<"docker", "Dockerfile.generic">>
                /\ tpl.jenkins = <<"jenkins", "Jenkinsfile.generic">>
                /\ tpl.gitlab = <<"gitlab", ".gitlab-ci.generic.yml">>
                /\ render_vars["BUILD_CMD"] = <<"echo \"No build configured\"">>
                /\ render_vars["TEST_CMD"] = <<"echo \"No tests configured\"">>
                /\ render_vars["CACHE_DIR"] = << >>
                /\ NoTemplateLine \in Range(report_lines))
          /\ (NoTemplateLine \in Range(report_lines) => info.language = "unknown")
    /\ (pc = "done" /\ MarkersAt(root) = {}) => NoTemplateLine \in Range(out[ReportName])
    /\ (pc = "failed" /\ MarkersAt(root) = {}) => (idx >= 1 /\ FailingName \in unwritable)

C6_Witness ==
    /\ pc = "done"
    /\ MarkersAt(root) = {}
    /\ "README.md" \in DOMAIN root
    /\ ReportName \in written
    /\ NoTemplateLine \in Range(out[ReportName])

\* no detail overrides one of the seven keys main sets itself
NoDetailOverrides ==
    /\ DOMAIN info.details \cap ListedPlaceholders = {}
    /\ render_vars["BUILD_CMD"] = tpl.build_cmd
    /\ render_vars["TEST_CMD"] = tpl.test_cmd
    /\ render_vars["CACHE_DIR"] = tpl.cache
    /\ render_vars["PROJECT_NAME"] = project_name(info.details)

\* SONAR_HOST and NEXUS_URL: the variable when set, empty or not, else the default
HostKeysFollowEnv ==
    /\ render_vars["SONAR_HOST"] =
          (IF "SONAR_HOST" \in DOMAIN env THEN env["SONAR_HOST"]
           ELSE <<"http://sonarqube:9000">>)
    /\ render_vars["NEXUS_URL"] =
          (IF "NEXUS_URL" \in DOMAIN env THEN env["NEXUS_URL"]
           ELSE <<"http://nexus:8081">>)

\* C7, as claimed: each of IMAGE_NAME, SONAR_HOST, NEXUS_URL is its
\* environment variable whenever that is set, the empty string included, and
\* its default only when unset; no detail overrides the seven keys.
C7_EnvWheneverSet ==
    AfterPrepare =>
        /\ render_vars["IMAGE_NAME"] =
              (IF "CI_REGISTRY_IMAGE" \in DOMAIN env THEN env["CI_REGISTRY_IMAGE"]
               ELSE render_vars["PROJECT_NAME"] \o <<":latest">>)
        /\ HostKeysFollowEnv
        /\ NoDetailOverrides

\* C7, amended: IMAGE_NAME is CI_REGISTRY_IMAGE when that is set and not
\* empty, else '<project name>:latest'; SONAR_HOST and NEXUS_URL are their
\* variables whenever set (the empty string included), else the defaults; no
\* detail overrides the seven keys.
C7_EnvWhenSetImageNonEmpty ==
    AfterPrepare =>
        /\ render_vars["IMAGE_NAME"] =
              (IF "CI_REGISTRY_IMAGE" \in DOMAIN env /\ env["CI_REGISTRY_IMAGE"] # << >>
               THEN env["CI_REGISTRY_IMAGE"]
               ELSE render_vars["PROJECT_NAME"] \o <<":latest">>)
        /\ HostKeysFollowEnv
        /\ NoDetailOverrides

C7_Witness ==
    /\ pc = "done"
    /\ "CI_REGISTRY_IMAGE" \in DOMAIN env
    /\ env["CI_REGISTRY_IMAGE"] = << >>
    /\ render_vars["IMAGE_NAME"] = <<"demo", ":latest">>
    /\ "SONAR_HOST" \in DOMAIN env
    /\ render_vars["SONAR_HOST"] = << >>

\* the manifest detect_language reads for the root's tag, if any
ReadManifest(r) ==
    CASE ExpectedTag(r) = "java" /\ "pom.xml" \in DOMAIN r -> {"pom.xml"}
      [] ExpectedTag(r) = "go" -> {"go.mod"}
      [] ExpectedTag(r) = "node" -> {"package.json"}
      [] ExpectedTag(r) = "python" /\ "pyproject.toml" \in DOMAIN r -> {"pyproject.toml"}
      [] OTHER -> {}
BadContent == {"unreadable", "empty", "malformed", "nonobject", "nofield"}

\* C8: whatever the state of the manifest read (unreadable, empty,
\* malformed, not an object, without the field), detection returns the tag
\* of the marker files with every detail absent (None, or the empty scripts),
\* and the run goes on: it ends only by a write that raises.
C8_DetectionNeverFails ==
    pc \notin {"idle", "call", "returned"} =>
        /\ info.language = ExpectedTag(root)
        /\ (pc = "failed" => (idx >= 1 /\ FailingName \in unwritable))
        /\ \A m \in ReadManifest(root) :
               root[m] \in BadContent =>
                   /\ DOMAIN info.details # {}
                   /\ \A k \in DOMAIN info.details : info.details[k] \in {None, <<"{}">>}

C8_Witness ==
    /\ pc = "done"
    /\ ReportName \in written
    /\ "package.json" \in DOMAIN root
    /\ root["package.json"] = "nonobject"
    /\ info.language = "node"
    /\ info.details["name"] = None

\* C9: a write that raises ends the run there: no later output and no
\* report.txt is written by that run, the outputs it wrote before stay, no
\* report line records the failure, and no run gets past a write that raises.
C9_WriteFailureAborts ==
    /\ pc = "failed" =>
          /\ idx >= 1
          /\ FailingName \in unwritable
          /\ FailingName \notin written
          /\ \A j \in (idx + 1)..Len(KindSeq) : OutputName(KindSeq[j]) \notin written
          /\ ReportName \notin written
          /\ (ReportName \in DOMAIN out <=> ReportName \in DOMAIN prevOut)
          /\ (ReportName \in DOMAIN out => out[ReportName] = prevOut[ReportName])
          /\ \A n \in written :
                 /\ n \in DOMAIN out
                 /\ WroteLine(n) \in Range(report_lines)
          /\ WroteLine(FailingName) \notin Range(report_lines)
          /\ Len(report_lines) <= 2 + (IF info.language = "unknown" THEN 1 ELSE 0)
                                    + (idx - 1)
    /\ pc \in {"render", "report", "done"} =>
          \A j \in 1..(idx - 1) :
              tpl[KindSeq[j]] \in DOMAIN templates =>
                  OutputName(KindSeq[j]) \notin unwritable
    /\ pc = "done" => ReportName \notin unwritable

C9_Witness ==
    /\ pc = "failed"
    /\ idx = 2
    /\ "Jenkinsfile" \in unwritable
    /\ "Dockerfile" \in written
    /\ ReportName \notin DOMAIN out

\* the claimed result of render_template: every token of a context key
\* replaced by its value in one pass over the template, nothing else altered
RECURSIVE SubstituteFrom(_, _, _)
SubstituteFrom(s, ctx, i) ==
    IF i > Len(s) THEN << >>
    ELSE LET hits == {j \in 1..Len(ctx) :
                        /\ i + 4 <= Len(s)
                        /\ SubSeq(s, i, i + 4) = Tok(ctx[j][1])}
         IN IF hits = {} THEN <<s[i]>> \o SubstituteFrom(s, ctx, i + 1)
            ELSE str(ctx[CHOOSE j \in hits : TRUE][2]) \o SubstituteFrom(s, ctx, i + 5)

\* C10: render_template of an existing template is the simultaneous literal
\* substitution: unknown tokens pass through, and a value that holds the
\* token of another key appears verbatim, whatever the order of the keys.
C10_SimultaneousSubstitution ==
    (pc = "returned" /\ RPath \in DOMAIN templates) =>
        rres = SubstituteFrom(templates[RPath], rctx, 1)

====
